---- MODULE Spec2Model ----
(***************************************************************************)
(* safe_learning/functions.py: GridWorld, PiecewiseConstant and            *)
(* Triangulation (Delaunay triangulation of one grid cell, generalised to  *)
(* every cell of a regular grid).                                          *)
(*                                                                         *)
(* Number model.  Physical coordinates live on an integer lattice whose    *)
(* unit is the clip margin 2*eps of _center_states (TwoEps); cell sizes    *)
(* are whole multiples of it, so every quotient the code forms is exact.   *)
(* Hyperplanes, weights and values are exact fractions [num, den].         *)
(* Two float64 facts change discrete outcomes and are kept:                *)
(*   - x - 2*eps rounds back to x once the spacing of doubles at x exceeds *)
(*     4*eps, i.e. for x > 4.0 (5.0 - 2*eps == 5.0); ExactMax stands for   *)
(*     that magnitude on the lattice (Sub2Eps);                            *)
(*   - a NaN coordinate survives clip, % and floor_divide, and its cast to *)
(*     int is undefined in C: the build yields the most negative int       *)
(*     (x86-64) or 0 (AArch64).                                            *)
(* Arrays are functions on 0..n-1, as numpy indexes them.  The model is    *)
(* two-dimensional: cartesian(np.diag(unit_maxes)) yields the four corners *)
(* of a cell for ndim = 2 (a single point for ndim = 1, repeated corners   *)
(* for ndim >= 3).                                                         *)
(***************************************************************************)
EXTENDS Integers, FiniteSets, TLC

VARIABLES self, pc, points, op, lib, result

vars == <<self, pc, points, op, lib, result>>

-----------------------------------------------------------------------------
(* Bounds of the model *)
MaxCells == 2
MaxBatch == 2

(* Numeric facts of the build *)
TwoEps == 1
ExactMax == 4
NaN == 1000000
IntMin == -2147483647

None == "None"
ValueError == "ValueError"

-----------------------------------------------------------------------------
(* numpy helpers *)
len(a) == Cardinality(DOMAIN a)
Idx(a) == DOMAIN a
A2(a, b) == [i \in 0..1 |-> IF i = 0 THEN a ELSE b]
A3(a, b, c) == [i \in 0..2 |-> IF i = 0 THEN a ELSE IF i = 1 THEN b ELSE c]
Max(a, b) == IF a >= b THEN a ELSE b
Min(a, b) == IF a <= b THEN a ELSE b
Abs(a) == IF a < 0 THEN -a ELSE a
IsNaN(x) == x = NaN

RECURSIVE SumTo(_, _)
SumTo(f, n) == IF n < 0 THEN 0 ELSE f[n] + SumTo(f, n - 1)
Sum(f) == SumTo(f, len(f) - 1)

RECURSIVE ProdFrom(_, _)
ProdFrom(dims, d) == IF d >= len(dims) THEN 1 ELSE dims[d] * ProdFrom(dims, d + 1)
np_prod(dims) == ProdFrom(dims, 0)

(* Python's floor division and modulo with a positive divisor; NaN stays NaN *)
floor_divide(x, u) == IF IsNaN(x) THEN NaN ELSE x \div u
mod(x, u) == IF IsNaN(x) THEN NaN ELSE x % u

(* np.rint of the quotient a / u, u > 0: nearest integer, ties to even *)
rint_div(a, u) ==
    LET q == a \div u
        r == a % u
    IN  IF 2 * r < u THEN q
        ELSE IF 2 * r > u THEN q + 1
        ELSE IF q % 2 = 0 THEN q ELSE q + 1

(* np.clip: minimum(maximum(x, lo), hi); NaN propagates *)
np_clip(x, lo, hi) == IF IsNaN(x) THEN NaN ELSE Min(Max(x, lo), hi)

(* np.ravel_multi_index(ijk, dims), C order, mode='raise' *)
ravel_in_bounds(ijk, dims) == \A d \in Idx(dims) : ijk[d] >= 0 /\ ijk[d] < dims[d]
ravel_multi_index(ijk, dims) ==
    LET F[k \in 0..len(dims)] == IF k = 0 THEN 0 ELSE F[k - 1] * dims[k - 1] + ijk[k - 1]
    IN  F[len(dims)]

(* np.unravel_index(index, dims), C order; raises outside [0, prod(dims)) *)
unravel_in_bounds(index, dims) == index >= 0 /\ index < np_prod(dims)
unravel_index(index, dims) ==
    [d \in Idx(dims) |-> (index \div ProdFrom(dims, d + 1)) % dims[d]]

-----------------------------------------------------------------------------
(* float true division a / b: exact on the lattice; by zero it yields inf or
   nan with a RuntimeWarning, never an exception *)
true_divide(a, b) ==
    IF b = 0 THEN (IF a = 0 THEN "nan" ELSE IF a > 0 THEN "inf" ELSE "-inf")
    ELSE IF b < 0 THEN -(a \div (-b)) ELSE a \div b

(* numpy broadcasting of two 1-d arrays: the shapes must agree or one be 1 *)
broadcastable(a, b) == len(a) = len(b) \/ len(a) = 1 \/ len(b) = 1
bcast(a, d) == a[IF len(a) = 1 THEN 0 ELSE d]

(* GridWorld.__init__: a scalar num_points is repeated for every limit pair;
   the argument is [scalar, value] *)
Scalar(n) == [scalar |-> TRUE, value |-> n]
Array(a) == [scalar |-> FALSE, value |-> a]
as_sequence(limits, num_points) ==
    IF num_points.scalar THEN [d \in Idx(limits) |-> num_points.value] ELSE num_points.value

GridWorld_init_raises(limits, num_points) ==
    ~broadcastable(limits, as_sequence(limits, num_points))

(* GridWorld.__init__: the derived fields of a grid *)
GridWorld_init(limits, num_points_arg, vertex_values) ==
    LET num_points == as_sequence(limits, num_points_arg)
        offset == [d \in Idx(limits) |-> limits[d][0]]
        width == 0..(Max(len(limits), len(num_points)) - 1)
        unit_maxes == [d \in width |->
                          true_divide(bcast(limits, d)[1] - bcast(offset, d), bcast(num_points, d))]
        offset_limits == [d \in Idx(limits) |-> A2(0, limits[d][1] - offset[d])]
    IN  [limits |-> limits,
         num_points |-> num_points,
         offset |-> offset,
         unit_maxes |-> unit_maxes,
         offset_limits |-> offset_limits,
         nrectangles |-> np_prod(num_points),
         nindex |-> np_prod([d \in Idx(num_points) |-> num_points[d] + 1]),
         ndim |-> len(limits),
         vertex_values |-> vertex_values]

(* float64 result of x - 2*eps *)
Sub2Eps(x) == IF x > ExactMax THEN x ELSE x - TwoEps

(* _center_states with the offset subtracted and the clip applied in the
   caller's own array *)
_center_states_inplace(g, states, clip) ==
    LET centered == [i \in DOMAIN states |-> [d \in DOMAIN g.offset |->
                        IF states[i][d] = NaN THEN NaN ELSE states[i][d] - g.offset[d]]]
        clipped == [i \in DOMAIN states |-> [d \in DOMAIN g.offset |->
                        IF centered[i][d] = NaN THEN NaN
                        ELSE Min(Max(centered[i][d], g.offset_limits[d][0] + TwoEps),
                                 Sub2Eps(g.offset_limits[d][1]))]]
        out == IF clip THEN clipped ELSE centered
    IN  [ret |-> out, arg |-> out]

(* GridWorld._center_states.  ret is the returned array; arg is the caller's
   array after the call (the subtraction allocates, so clip's out= never
   aliases it). *)
_center_states(g, states, clip) ==
    LET centered == [i \in Idx(states) |-> [d \in Idx(g.offset) |->
                        IF IsNaN(states[i][d]) THEN NaN ELSE states[i][d] - g.offset[d]]]
        clipped == [i \in Idx(states) |-> [d \in Idx(g.offset) |->
                        np_clip(centered[i][d],
                                g.offset_limits[d][0] + TwoEps,
                                Sub2Eps(g.offset_limits[d][1]))]]
    IN  [ret |-> IF clip THEN clipped ELSE centered, arg |-> states]

(* GridWorld.index_to_state *)
index_to_state_raises(g, indices) ==
    \E i \in Idx(indices) :
        ~unravel_in_bounds(indices[i], [d \in Idx(g.num_points) |-> g.num_points[d] + 1])
index_to_state(g, indices) ==
    [i \in Idx(indices) |->
        LET ijk_index == unravel_index(indices[i], [d \in Idx(g.num_points) |-> g.num_points[d] + 1])
        IN  [d \in Idx(g.offset) |-> ijk_index[d] * g.unit_maxes[d] + g.offset[d]]]

(* state_to_index that forgets to subtract the offset *)
state_to_index_uncentered(g, states) ==
    [i \in DOMAIN states |->
        LET clipped == [d \in DOMAIN g.offset |-> Min(Max(states[i][d], g.limits[d][0]), g.limits[d][1])]
            ijk_index == [d \in DOMAIN g.offset |-> rint_div(clipped[d], g.unit_maxes[d])]
        IN  ravel_multi_index(ijk_index, [d \in DOMAIN g.num_points |-> g.num_points[d] + 1])]

(* GridWorld.state_to_index *)
state_to_index(g, states) ==
    [i \in Idx(states) |->
        LET clipped == [d \in Idx(g.offset) |-> np_clip(states[i][d], g.limits[d][0], g.limits[d][1])]
            ijk_index == [d \in Idx(g.offset) |-> rint_div(clipped[d] - g.offset[d], g.unit_maxes[d])]
        IN  ravel_multi_index(ijk_index, [d \in Idx(g.num_points) |-> g.num_points[d] + 1])]

(* GridWorld.state_to_rectangle.  cast is what astype(np.int) makes of NaN. *)
rectangle_ijk(g, states, offset, cast) ==
    LET centered == IF offset THEN _center_states(g, states, TRUE).ret ELSE states
    IN  [i \in Idx(centered) |-> [d \in Idx(g.unit_maxes) |->
            LET q == floor_divide(centered[i][d], g.unit_maxes[d])
            IN  IF IsNaN(q) THEN cast ELSE q]]
state_to_rectangle_raises(g, states, offset, cast) ==
    \E i \in Idx(states) : ~ravel_in_bounds(rectangle_ijk(g, states, offset, cast)[i], g.num_points)
state_to_rectangle(g, states, offset, cast) ==
    [i \in Idx(states) |-> ravel_multi_index(rectangle_ijk(g, states, offset, cast)[i], g.num_points)]

(* GridWorld.rectangle_to_state *)
rectangle_raises(g, rectangles) ==
    \E i \in Idx(rectangles) : ~unravel_in_bounds(rectangles[i], g.num_points)
rectangle_to_state(g, rectangles) ==
    [i \in Idx(rectangles) |->
        LET ijk_index == unravel_index(rectangles[i], g.num_points)
        IN  [d \in Idx(g.offset) |-> ijk_index[d] * g.unit_maxes[d] + g.offset[d]]]

(* rectangle_corner_index that re-ravels against num_points *)
rectangle_corner_index_coarse(g, rectangles) ==
    [i \in DOMAIN rectangles |->
        ravel_multi_index(unravel_index(rectangles[i], g.num_points), g.num_points)]

(* GridWorld.rectangle_corner_index *)
rectangle_corner_index(g, rectangles) ==
    [i \in Idx(rectangles) |->
        ravel_multi_index(unravel_index(rectangles[i], g.num_points),
                          [d \in Idx(g.num_points) |-> g.num_points[d] + 1])]

-----------------------------------------------------------------------------
(* scipy.spatial.Delaunay on the corners of one cell, by its contract *)

(* sklearn cartesian(np.diag(unit_maxes)): rows (u0,0), (u0,u1), (0,0), (0,u1) *)
hyperrectangle_corners(unit_maxes) ==
    [c \in 0..3 |-> A2(IF c \div 2 = 0 THEN unit_maxes[0] ELSE 0,
                       IF c % 2 = 0 THEN 0 ELSE unit_maxes[1])]

cross(a, b, c) == (b[0] - a[0]) * (c[1] - a[1]) - (b[1] - a[1]) * (c[0] - a[0])

(* the closed triangle of corners t[0], t[1], t[2] contains x *)
InSimplex(corners, t, x) ==
    LET o0 == cross(corners[t[0]], corners[t[1]], x)
        o1 == cross(corners[t[1]], corners[t[2]], x)
        o2 == cross(corners[t[2]], corners[t[0]], x)
    IN  (o0 >= 0 /\ o1 >= 0 /\ o2 >= 0) \/ (o0 <= 0 /\ o1 <= 0 /\ o2 <= 0)

Opposite(corners, a, b) == corners[a][0] # corners[b][0] /\ corners[a][1] # corners[b][1]

(* Every simplices array Delaunay may return for the four cocircular corners:
   two triangles on either diagonal, rows and vertices in any order. *)
DelaunaySimplices(corners) ==
    {s \in [0..1 -> [0..2 -> 0..3]] :
        /\ \A r \in 0..1 : Cardinality({s[r][j] : j \in 0..2}) = 3
        /\ {s[0][j] : j \in 0..2} \cup {s[1][j] : j \in 0..2} = 0..3
        /\ LET shared == {s[0][j] : j \in 0..2} \cap {s[1][j] : j \in 0..2}
           IN  \A a, b \in shared : a # b => Opposite(corners, a, b)}

Delaunay(corners) ==
    {[points |-> corners, simplices |-> s, nsimplex |-> 2] : s \in DelaunaySimplices(corners)}

(* Delaunay.find_simplex on one point: a simplex that contains it, -1 if none *)
Delaunay_find_simplex(tri, x) ==
    LET inside == {s \in Idx(tri.simplices) :
                      ~IsNaN(x[0]) /\ ~IsNaN(x[1]) /\ InSimplex(tri.points, tri.simplices[s], x)}
    IN  IF inside = {} THEN {-1} ELSE inside

-----------------------------------------------------------------------------
(* Triangulation *)

(* Triangulation._triangulation_simplex_indices *)
_triangulation_simplex_indices(g, tri) ==
    LET index_mapping == state_to_index(g, [c \in Idx(tri.points) |->
                             [d \in Idx(g.offset) |-> tri.points[c][d] + g.offset[d]]])
    IN  [s \in Idx(tri.simplices) |-> [j \in Idx(tri.simplices[s]) |->
            index_mapping[tri.simplices[s][j]]]]

(* the transpose of the inverse *)
inv_transposed(E) ==
    LET det == E[0][0] * E[1][1] - E[0][1] * E[1][0]
        sgn == IF det < 0 THEN -1 ELSE 1
    IN  [num |-> A2(A2(sgn * E[1][1], -sgn * E[1][0]), A2(-sgn * E[0][1], sgn * E[0][0])),
         den |-> Abs(det)]

(* np.linalg.inv of a 2x2 matrix as an exact fraction with positive den *)
inv(E) ==
    LET det == E[0][0] * E[1][1] - E[0][1] * E[1][0]
        sgn == IF det < 0 THEN -1 ELSE 1
    IN  [num |-> A2(A2(sgn * E[1][1], -sgn * E[0][1]), A2(-sgn * E[1][0], sgn * E[0][0])),
         den |-> Abs(det)]

(* Triangulation._update_hyperplanes *)
_update_hyperplanes(g, unit_simplices) ==
    [i \in Idx(unit_simplices) |->
        LET simplex_points == index_to_state(g, unit_simplices[i])
        IN  inv([r \in 0..(g.ndim - 1) |-> [d \in 0..(g.ndim - 1) |->
                    simplex_points[r + 1][d] - simplex_points[0][d]]])]

(* Triangulation.__init__ with the triangulation tri that Delaunay returned *)
Triangulation_init(limits, num_points, vertex_values, project, tri) ==
    LET g == GridWorld_init(limits, num_points, vertex_values)
        unit_simplices == _triangulation_simplex_indices(g, tri)
    IN  [limits |-> g.limits, num_points |-> g.num_points, offset |-> g.offset,
         unit_maxes |-> g.unit_maxes, offset_limits |-> g.offset_limits,
         nrectangles |-> g.nrectangles, nindex |-> g.nindex, ndim |-> g.ndim,
         vertex_values |-> g.vertex_values,
         triangulation |-> tri,
         unit_simplices |-> unit_simplices,
         nsimplex |-> tri.nsimplex * g.nrectangles,
         hyperplanes |-> _update_hyperplanes(g, unit_simplices),
         project |-> project]

(* exact fractions *)
Frac(n, d) == [num |-> n, den |-> d]
FracAdd(a, b) == Frac(a.num * b.den + b.num * a.den, a.den * b.den)
FracEq(a, b) == a.num * b.den = b.num * a.den
RECURSIVE FracSumTo(_, _)
FracSumTo(f, n) == IF n < 0 THEN Frac(0, 1) ELSE FracAdd(FracSumTo(f, n - 1), f[n])
FracSum(f) == FracSumTo(f, len(f) - 1)

(* points % self.unit_maxes of the centered, clipped points (find_simplex) *)
unit_coordinates(t, pts) ==
    LET centered == _center_states(t, pts, TRUE).ret
    IN  [i \in Idx(pts) |-> [d \in Idx(t.unit_maxes) |-> mod(centered[i][d], t.unit_maxes[d])]]

(* the arrays self.triangulation.find_simplex(unit_coordinates) may return *)
Located(t, pts) ==
    {f \in [Idx(pts) -> -1..(t.triangulation.nsimplex - 1)] :
        \A i \in Idx(pts) : f[i] \in Delaunay_find_simplex(t.triangulation, unit_coordinates(t, pts)[i])}

(* Triangulation.find_simplex; found is the library's answer, a fresh array
   that += updates in place *)
find_simplex(t, pts, found, cast) ==
    LET centered == _center_states(t, pts, TRUE)
        raised == state_to_rectangle_raises(t, centered.ret, FALSE, cast)
        rectangles == state_to_rectangle(t, centered.ret, FALSE, cast)
    IN  [raised |-> raised,
         ret |-> IF raised THEN None
                 ELSE [i \in Idx(pts) |-> found[i] + rectangles[i] * t.triangulation.nsimplex],
         arg |-> centered.arg]

(* simplices that returns the rows of the reference cell without shifting
   them to the rectangle *)
simplices_unshifted(t, indices) ==
    LET rectangles == [i \in DOMAIN indices |-> indices[i] \div t.triangulation.nsimplex]
        raised == \E i \in DOMAIN indices :
                     rectangles[i] < 0 \/ rectangles[i] >= t.nrectangles
    IN  [raised |-> raised,
         ret |-> IF raised THEN None
                 ELSE [i \in DOMAIN indices |->
                          t.unit_simplices[indices[i] % t.triangulation.nsimplex]],
         table |-> t.unit_simplices,
         arg |-> indices]

(* Triangulation.simplices; table is self.unit_simplices after the call (the
   rows are copied before += shifts them) *)
simplices(t, indices) ==
    LET unit_indices == [i \in Idx(indices) |-> indices[i] % t.triangulation.nsimplex]
        rows == [i \in Idx(indices) |-> t.unit_simplices[unit_indices[i]]]
        rectangles == [i \in Idx(indices) |-> indices[i] \div t.triangulation.nsimplex]
        raised == rectangle_raises(t, rectangles)
        corner_index == rectangle_corner_index(t, rectangles)
    IN  [raised |-> raised,
         ret |-> IF raised THEN None
                 ELSE [i \in Idx(indices) |-> [j \in Idx(rows[i]) |-> rows[i][j] + corner_index[i]]],
         table |-> t.unit_simplices,
         arg |-> indices]

(* Triangulation._get_weights *)
_get_weights(t, pts, found, cast) ==
    LET blended == IF t.project
                   THEN [i \in Idx(pts) |-> [d \in Idx(t.limits) |->
                            np_clip(pts[i][d], t.limits[d][0], t.limits[d][1])]]
                   ELSE pts
        weights(fs, sp) ==
            [raised |-> FALSE,
             weights |-> [i \in Idx(pts) |->
                            LET origin == index_to_state(t, [z \in 0..0 |-> sp.ret[i][0]])[0]
                                H == t.hyperplanes[fs.ret[i] % t.triangulation.nsimplex]
                                rest == [k \in 0..(t.ndim - 1) |->
                                            Sum([j \in 0..(t.ndim - 1) |->
                                                (blended[i][j] - origin[j]) * H.num[j][k]])]
                            IN  Frac([j \in 0..t.ndim |->
                                        IF j = 0 THEN H.den - Sum(rest) ELSE rest[j - 1]], H.den)],
             simplices |-> sp.ret,
             table |-> sp.table,
             arg |-> fs.arg]
        failed(fs) == [raised |-> TRUE, weights |-> None, simplices |-> None,
                       table |-> t.unit_simplices, arg |-> fs.arg]
        looked_up(fs, sp) == IF sp.raised THEN failed(fs) ELSE weights(fs, sp)
        located(fs) == IF fs.raised THEN failed(fs) ELSE looked_up(fs, simplices(t, fs.ret))
    IN  located(find_simplex(t, pts, found, cast))

(* Triangulation.evaluate *)
evaluate(t, pts, found, cast) ==
    LET blend(w) ==
            [raised |-> w.raised,
             ret |-> IF w.raised THEN None
                     ELSE [i \in Idx(pts) |->
                            Frac(Sum([j \in 0..t.ndim |->
                                     w.weights[i].num[j] * t.vertex_values[w.simplices[i][j]]]),
                                 w.weights[i].den)],
             table |-> w.table,
             arg |-> w.arg]
    IN  blend(_get_weights(t, pts, found, cast))

(* Triangulation.evaluate_constraint: the coo_matrix triples and shape *)
evaluate_constraint(t, pts, found, cast) ==
    LET nsimp == t.ndim + 1
        coo_matrix(w, npoints, entries) ==
            [shape |-> A2(npoints, t.nindex),
             row |-> [e \in entries |-> e \div nsimp],
             col |-> [e \in entries |-> w.simplices[e \div nsimp][e % nsimp]],
             data |-> [e \in entries |->
                          Frac(w.weights[e \div nsimp].num[e % nsimp],
                               w.weights[e \div nsimp].den)]]
        constraint(w) ==
            [raised |-> w.raised,
             ret |-> IF w.raised THEN None
                     ELSE coo_matrix(w, len(w.simplices), 0..(len(pts) * nsimp - 1)),
             table |-> w.table,
             arg |-> w.arg]
    IN  constraint(_get_weights(t, pts, found, cast))

(* Triangulation._get_weights_gradient *)
_get_weights_gradient(t, pts, found, cast) ==
    LET weights(fs, sp) ==
            [raised |-> FALSE,
             weights |-> [i \in Idx(pts) |->
                            LET H == t.hyperplanes[fs.ret[i] % t.triangulation.nsimplex]
                            IN  [d \in 0..(t.ndim - 1) |->
                                    Frac([j \in 0..t.ndim |->
                                            IF j = 0 THEN -Sum([k \in 0..(t.ndim - 1) |-> H.num[d][k]])
                                            ELSE H.num[d][j - 1]], H.den)]],
             simplices |-> sp.ret,
             table |-> sp.table,
             arg |-> fs.arg]
        failed(fs) == [raised |-> TRUE, weights |-> None, simplices |-> None,
                       table |-> t.unit_simplices, arg |-> fs.arg]
        looked_up(fs, sp) == IF sp.raised THEN failed(fs) ELSE weights(fs, sp)
        located(fs) == IF fs.raised THEN failed(fs) ELSE looked_up(fs, simplices(t, fs.ret))
    IN  located(find_simplex(t, pts, found, cast))

(* Triangulation.gradient *)
gradient(t, pts, found, cast) ==
    LET blend(w) ==
            [raised |-> w.raised,
             ret |-> IF w.raised THEN None
                     ELSE [i \in Idx(pts) |-> [d \in 0..(t.ndim - 1) |->
                            Frac(Sum([j \in 0..t.ndim |->
                                     w.weights[i][d].num[j] * t.vertex_values[w.simplices[i][j]]]),
                                 w.weights[i][d].den)]],
             table |-> w.table,
             arg |-> w.arg]
    IN  blend(_get_weights_gradient(t, pts, found, cast))

(* Triangulation.gradient_constraint: the coo_matrix triples and shape *)
gradient_constraint(t, pts, found, cast) ==
    LET nsimp == t.ndim + 1
        per_point == t.ndim * nsimp
        coo_matrix(w, npoints, entries) ==
            [shape |-> A2(t.ndim * npoints, t.nindex),
             row |-> [e \in entries |-> e \div nsimp],
             col |-> [e \in entries |-> w.simplices[e \div per_point][(e % per_point) % nsimp]],
             data |-> [e \in entries |->
                          Frac(w.weights[e \div per_point][(e \div nsimp) % t.ndim].num[e % nsimp],
                               w.weights[e \div per_point][(e \div nsimp) % t.ndim].den)]]
        constraint(w) ==
            [raised |-> w.raised,
             ret |-> IF w.raised THEN None
                     ELSE coo_matrix(w, len(w.simplices), 0..(len(w.simplices) * per_point - 1)),
             table |-> w.table,
             arg |-> w.arg]
    IN  constraint(_get_weights_gradient(t, pts, found, cast))

(* B.dot(v) of a coo_matrix: duplicate entries are summed *)
dot(B, v) ==
    [r \in 0..(B.shape[0] - 1) |->
        FracSum([e \in Idx(B.data) |->
                    IF B.row[e] = r THEN Frac(B.data[e].num * v[B.col[e]], B.data[e].den)
                    ELSE Frac(0, 1)])]

(* np.reshape(a, (rows, cols)) of a flat array, C order *)
reshape(a, rows, cols) == [r \in 0..(rows - 1) |-> [c \in 0..(cols - 1) |-> a[r * cols + c]]]

-----------------------------------------------------------------------------
(* Configurations the constructor is given *)
UnitSizes == {<<2, 2>>, <<2, 3>>}
Offsets == {<<-1, 1>>}

Limits(n, u, lo) == [d \in 0..1 |-> A2(lo[d + 1], lo[d + 1] + n[d] * u[d + 1])]

(* vertex values: the affine field x + 2y of the grid's own coordinates, or
   a field that is not affine *)
Fields == {"affine", "square"}
FieldGradient == A2(1, 2)
AffineAt(x) == FieldGradient[0] * x[0] + FieldGradient[1] * x[1]
VertexValues(g, field) ==
    [v \in 0..(g.nindex - 1) |->
        IF field = "affine" THEN AffineAt(index_to_state(g, [z \in 0..0 |-> v])[0])
        ELSE v * v]

(* the simplices arrays kept of DelaunaySimplices: both rows list the shared
   diagonal in the same positions, lower corner number first *)
Sampled(s) ==
    LET other == {s[1][k] : k \in 0..2}
    IN  /\ \A j \in 0..2 : s[0][j] \in other => s[1][j] = s[0][j]
        /\ \A j, k \in 0..2 : (j < k /\ s[0][j] \in other /\ s[0][k] \in other) => s[0][j] < s[0][k]

Init ==
    /\ \E n \in [0..1 -> 1..MaxCells], u \in UnitSizes, lo \in Offsets,
          project \in BOOLEAN, field \in Fields :
          LET limits == Limits(n, u, lo)
              g == GridWorld_init(limits, Array(n), None)
          IN  \E tri \in {x \in Delaunay(hyperrectangle_corners(g.unit_maxes)) : Sampled(x.simplices)} :
                 self = Triangulation_init(limits, Array(n), VertexValues(g, field), project, tri)
    /\ pc = "idle"
    /\ points = None
    /\ op = None
    /\ lib = None
    /\ result = None

-----------------------------------------------------------------------------
(* Arrays a caller passes *)
Coordinates(t, d) == (t.limits[d][0] - 1)..(t.limits[d][1] + 1)
StatePoints(t) == {A2(x, y) : x \in Coordinates(t, 0), y \in Coordinates(t, 1)}
ProbePoints(t) == {A2(x, y) : x \in {t.limits[0][0] + 1, t.limits[0][1]},
                              y \in {t.limits[1][0] + 1, t.limits[1][1]}}
NaNPoints(t) == {A2(NaN, y) : y \in {t.limits[1][0], t.limits[1][1]}}
                  \cup {A2(x, NaN) : x \in {t.limits[0][0], t.limits[0][1]}}
StateBatches(t) ==
    {[i \in 0..0 |-> p] : p \in StatePoints(t) \cup NaNPoints(t)}
      \cup UNION {[0..(k - 1) -> ProbePoints(t)] : k \in 2..MaxBatch}
IndexBatches(t) ==
    {[i \in 0..0 |-> v] : v \in -1..Max(t.nindex, t.nsimplex)}
      \cup UNION {[0..(k - 1) -> 0..1] : k \in 2..MaxBatch}

Finite(pts) == \A i \in Idx(pts) : \A d \in Idx(pts[i]) : ~IsNaN(pts[i][d])

(* what astype(np.int) may make of a NaN *)
NaNCasts == {IntMin, 0}

-----------------------------------------------------------------------------
(* The caller allocates the argument array *)
PrepareStates ==
    /\ pc = "idle"
    /\ \E a \in StateBatches(self) : points' = a
    /\ pc' = "states"
    /\ UNCHANGED <<self, op, lib, result>>

PrepareIndices ==
    /\ pc = "idle"
    /\ \E a \in IndexBatches(self) : points' = a
    /\ pc' = "indices"
    /\ UNCHANGED <<self, op, lib, result>>

(* a call on a points array: r is what the method returned and left behind *)
Returned(name, response, r) ==
    /\ op' = name
    /\ lib' = response
    /\ result' = [raised |-> r.raised, ret |-> r.ret]
    /\ points' = r.arg
    /\ self' = [self EXCEPT !.unit_simplices = r.table]
    /\ pc' = "done"

FindSimplex ==
    /\ pc = "states"
    /\ \E found \in Located(self, points), cast \in NaNCasts :
          /\ (Finite(points) => cast = 0)
          /\ LET r == find_simplex(self, points, found, cast)
             IN  Returned("find_simplex", [found |-> found, cast |-> cast],
                          [raised |-> r.raised, ret |-> r.ret, arg |-> r.arg,
                           table |-> self.unit_simplices])

Evaluate ==
    /\ pc = "states"
    /\ Finite(points)
    /\ \E found \in Located(self, points) :
          Returned("evaluate", [found |-> found, cast |-> 0], evaluate(self, points, found, 0))

EvaluateConstraint ==
    /\ pc = "states"
    /\ Finite(points)
    /\ \E found \in Located(self, points) :
          Returned("evaluate_constraint", [found |-> found, cast |-> 0],
                   evaluate_constraint(self, points, found, 0))

Gradient ==
    /\ pc = "states"
    /\ Finite(points)
    /\ \E found \in Located(self, points) :
          Returned("gradient", [found |-> found, cast |-> 0], gradient(self, points, found, 0))

GradientConstraint ==
    /\ pc = "states"
    /\ Finite(points)
    /\ \E found \in Located(self, points) :
          Returned("gradient_constraint", [found |-> found, cast |-> 0],
                   gradient_constraint(self, points, found, 0))

StateToIndex ==
    /\ pc = "states"
    /\ Finite(points)
    /\ Returned("state_to_index", None,
                [raised |-> FALSE, ret |-> state_to_index(self, points), arg |-> points,
                 table |-> self.unit_simplices])

Simplices ==
    /\ pc = "indices"
    /\ LET r == simplices(self, points)
       IN  Returned("simplices", None, r)

IndexToState ==
    /\ pc = "indices"
    /\ LET raised == index_to_state_raises(self, points)
       IN  Returned("index_to_state", None,
                    [raised |-> raised,
                     ret |-> IF raised THEN None ELSE index_to_state(self, points),
                     arg |-> points, table |-> self.unit_simplices])

RectangleToState ==
    /\ pc = "indices"
    /\ LET raised == rectangle_raises(self, points)
       IN  Returned("rectangle_to_state", None,
                    [raised |-> raised,
                     ret |-> IF raised THEN None ELSE rectangle_to_state(self, points),
                     arg |-> points, table |-> self.unit_simplices])

RectangleCornerIndex ==
    /\ pc = "indices"
    /\ LET raised == rectangle_raises(self, points)
       IN  Returned("rectangle_corner_index", None,
                    [raised |-> raised,
                     ret |-> IF raised THEN None ELSE rectangle_corner_index(self, points),
                     arg |-> points, table |-> self.unit_simplices])

(* the caller drops the arrays of the finished call *)
Return ==
    /\ pc = "done"
    /\ pc' = "idle"
    /\ points' = None
    /\ op' = None
    /\ lib' = None
    /\ result' = None
    /\ UNCHANGED self

Next ==
    \/ PrepareStates
    \/ PrepareIndices
    \/ FindSimplex
    \/ Evaluate
    \/ EvaluateConstraint
    \/ Gradient
    \/ GradientConstraint
    \/ StateToIndex
    \/ Simplices
    \/ IndexToState
    \/ RectangleToState
    \/ RectangleCornerIndex
    \/ Return

Spec == Init /\ [][Next]_vars

-----------------------------------------------------------------------------
(* Construction with arguments that may be malformed *)
CtorLimits ==
    {[d \in 0..0 |-> A2(0, w)] : w \in {0, 4}}
      \cup {[d \in 0..1 |-> A2(0, IF d = 0 THEN w0 ELSE w1)] : w0 \in {0, 4}, w1 \in {0, 4}}
CtorCounts == {-1, 0, 1, 2}
CtorNumPoints ==
    {Scalar(n) : n \in CtorCounts}
      \cup UNION {{Array(a) : a \in [0..(m - 1) -> CtorCounts]} : m \in 1..3}
Classes == {"GridWorld", "PiecewiseConstant"}

WellFormed(limits, num_points) ==
    /\ num_points.scalar \/ len(num_points.value) = len(limits)
    /\ \A d \in Idx(as_sequence(limits, num_points)) : as_sequence(limits, num_points)[d] >= 1
    /\ \A d \in Idx(limits) : limits[d][0] # limits[d][1]

InitC ==
    /\ \E cls \in Classes, limits \in CtorLimits, num_points \in CtorNumPoints :
          self = [cls |-> cls, limits |-> limits, num_points |-> num_points]
    /\ pc = "new"
    /\ points = None
    /\ op = None
    /\ lib = None
    /\ result = None

(* GridWorld.__init__ and PiecewiseConstant.__init__, which only forwards *)
Construct ==
    /\ pc = "new"
    /\ LET raised == GridWorld_init_raises(self.limits, self.num_points)
       IN  /\ result' = [raised |-> raised,
                         ret |-> IF raised THEN None
                                 ELSE GridWorld_init(self.limits, self.num_points, None)]
           /\ pc' = IF raised THEN "failed" ELSE "built"
    /\ op' = self.cls
    /\ UNCHANGED <<self, points, lib>>

NextC == Construct

SpecC == InitC /\ [][NextC]_vars

-----------------------------------------------------------------------------
(* Properties *)
Done(name) == pc = "done" /\ op = name

InsideLimits(t, p) == \A d \in Idx(t.limits) : p[d] >= t.limits[d][0] /\ p[d] <= t.limits[d][1]
Interior(t, p) == \A d \in Idx(t.limits) : p[d] > t.limits[d][0] /\ p[d] < t.limits[d][1]
Clamped(t, pts) ==
    [i \in Idx(pts) |-> [d \in Idx(t.limits) |-> np_clip(pts[i][d], t.limits[d][0], t.limits[d][1])]]
IsAffine(t) == t.vertex_values = VertexValues(t, "affine")

(* C1: every evaluate_constraint call returns a len(points) x nindex matrix B
   whose row i holds exactly the ndim+1 weights of point i in the columns of
   its simplex's vertices, and B.dot(vertex_values) equals evaluate(points)
   entry by entry. *)
C1_ConstraintIsEvaluate ==
    Done("evaluate_constraint") =>
        /\ ~result.raised
        /\ LET B == result.ret
               e == evaluate(self, points, lib.found, lib.cast)
               w == _get_weights(self, points, lib.found, lib.cast)
           IN  /\ B.shape = A2(len(points), self.nindex)
               /\ \A i \in Idx(points) :
                     /\ FracEq(dot(B, self.vertex_values)[i], e.ret[i])
                     /\ \A j \in 0..self.ndim :
                           \E x \in Idx(B.data) :
                              /\ B.row[x] = i
                              /\ B.col[x] = w.simplices[i][j]
                              /\ FracEq(B.data[x], Frac(w.weights[i].num[j], w.weights[i].den))
                     /\ Cardinality({x \in Idx(B.data) : B.row[x] = i}) = self.ndim + 1

(* C2: a matrix returned by gradient_constraint has shape (ndim*k, nindex),
   and its product with vertex_values reshaped to (ndim, k) holds component d
   of gradient(points) for point i at [d, i]. *)
C2_GradientConstraintReshape ==
    (Done("gradient_constraint") /\ ~result.raised) =>
        LET k == len(points)
            g == gradient(self, points, lib.found, lib.cast)
            flat == dot(result.ret, self.vertex_values)
        IN  /\ result.ret.shape = A2(self.ndim * k, self.nindex)
            /\ \A d \in 0..(self.ndim - 1) : \A i \in Idx(points) :
                  FracEq(reshape(flat, self.ndim, k)[d][i], g.ret[i][d])

(* C3: with vertex_values sampled from the affine field f, evaluate returns
   f(p) and gradient returns the constant vector a for every query point
   strictly inside the limits, whichever simplex the point was located in. *)
C3_AffineExact ==
    (pc = "done" /\ op \in {"evaluate", "gradient"} /\ IsAffine(self)
        /\ \A i \in Idx(points) : Interior(self, points[i])) =>
        /\ ~result.raised
        /\ op = "evaluate" =>
              \A i \in Idx(points) : FracEq(result.ret[i], Frac(AffineAt(points[i]), 1))
        /\ op = "gradient" =>
              \A i \in Idx(points) : \A d \in 0..(self.ndim - 1) :
                 FracEq(result.ret[i][d], Frac(FieldGradient[d], 1))

(* C3 witness: evaluate has blended an interior point that is no vertex (a
   weight strictly between 0 and 1) on an affine field, in a cell other than
   the first. *)
C3_Witness ==
    /\ Done("evaluate") /\ IsAffine(self) /\ ~result.raised
    /\ \E i \in Idx(points) :
          /\ Interior(self, points[i])
          /\ find_simplex(self, points, lib.found, lib.cast).ret[i] >= self.triangulation.nsimplex
          /\ LET w == _get_weights(self, points, lib.found, lib.cast).weights[i]
             IN  \E j \in 0..self.ndim : w.num[j] > 0 /\ w.num[j] < w.den

(* C4: for every query point the ndim+1 weights of _get_weights sum to 1;
   for every point inside the limits (boundaries included) the located
   simplex contains it, so each weight lies in [0, 1]; the gradient weights
   of _get_weights_gradient sum to zero for each dimension. *)
C4_WeightsPartition ==
    (pc = "done" /\ op \in {"evaluate", "gradient"}) =>
        /\ ~result.raised
        /\ op = "evaluate" =>
              LET w == _get_weights(self, points, lib.found, lib.cast).weights
              IN  \A i \in Idx(points) :
                     /\ Sum(w[i].num) = w[i].den
                     /\ InsideLimits(self, points[i]) =>
                           \A j \in 0..self.ndim : w[i].num[j] >= 0 /\ w[i].num[j] <= w[i].den
        /\ op = "gradient" =>
              LET w == _get_weights_gradient(self, points, lib.found, lib.cast).weights
              IN  \A i \in Idx(points) : \A d \in 0..(self.ndim - 1) : Sum(w[i][d].num) = 0

(* C5: for every query point, inside or outside the limits, find_simplex
   returns unit_simplex_id + rectangle_index * nsimplex_per_cell with both
   parts in range, so 0 <= id < nsimplex = nrectangles * nsimplex_per_cell,
   and nindex is the product of num_points[d] + 1. *)
C5_SimplexIdInRange ==
    (Done("find_simplex") /\ Finite(points)) =>
        /\ ~result.raised
        /\ self.nsimplex = self.nrectangles * self.triangulation.nsimplex
        /\ self.nindex = np_prod([d \in Idx(self.num_points) |-> self.num_points[d] + 1])
        /\ \A i \in Idx(points) :
              /\ result.ret[i] >= 0 /\ result.ret[i] < self.nsimplex
              /\ \E unit \in 0..(self.triangulation.nsimplex - 1), rect \in 0..(self.nrectangles - 1) :
                    result.ret[i] = unit + rect * self.triangulation.nsimplex

(* C6: state_to_index(index_to_state(v)) == v for every vertex index v. *)
C6_IndexRoundTrip ==
    Done("state_to_index") =>
        \A v \in [Idx(points) -> 0..(self.nindex - 1)] :
            points = index_to_state(self, v) => (~result.raised /\ result.ret = v)

(* C6 witness: state_to_index has been applied to the coordinates of a
   vertex other than vertex 0. *)
C6_Witness ==
    /\ Done("state_to_index")
    /\ \E v \in [Idx(points) -> 1..(self.nindex - 1)] :
          points = index_to_state(self, v) /\ result.ret = v

(* C7: with project=True, evaluate at a point outside the limits returns the
   value of evaluate at the point clamped onto the limits, and find_simplex
   selects the same simplex for both. *)
C7_ProjectClamps ==
    (Done("evaluate") /\ self.project /\ \E i \in Idx(points) : ~InsideLimits(self, points[i])) =>
        /\ ~result.raised
        /\ lib.found \in Located(self, Clamped(self, points))
        /\ LET e == evaluate(self, Clamped(self, points), lib.found, lib.cast)
               f == find_simplex(self, Clamped(self, points), lib.found, lib.cast)
           IN  /\ ~e.raised
               /\ \A i \in Idx(points) : FracEq(result.ret[i], e.ret[i])
               /\ f.ret = find_simplex(self, points, lib.found, lib.cast).ret

(* C8: when the point location of the reference cell answers -1 for a query
   point, find_simplex reports a failure: it never returns for that point an
   id in [0, nsimplex) made of the sentinel and the rectangle index. *)
C8_SentinelReported ==
    Done("find_simplex") =>
        \A i \in Idx(points) :
            lib.found[i] = -1 =>
                (result.raised \/ result.ret[i] < 0 \/ result.ret[i] >= self.nsimplex)

(* C9: construction fails for every malformed configuration: a cell-count
   sequence whose length differs from the number of limit pairs, a count
   that is zero or negative, or limits with min == max. *)
C9_MalformedRejected ==
    (pc \in {"built", "failed"} /\ ~WellFormed(self.limits, self.num_points)) => pc = "failed"

(* C10: a query leaves the object (vertex_values, unit_simplices,
   hyperplanes, the grid parameters) and the caller's array unchanged. *)
C10_QueriesOnlyRead ==
    [][(pc \in {"states", "indices"} /\ pc' = "done") => (self' = self /\ points' = points)]_vars

(* C10 witness: find_simplex has returned for a point that the in-place clip
   of _center_states moves. *)
C10_Witness ==
    /\ Done("find_simplex") /\ ~result.raised
    /\ _center_states(self, points, TRUE).ret # points
    /\ \E i \in Idx(points) : ~InsideLimits(self, points[i])

(* the corners of rectangle r as offsets from its bottom-left corner *)
IsCornerOf(t, r, state) ==
    LET corner == rectangle_to_state(t, [z \in 0..0 |-> r])[0]
    IN  \A d \in Idx(t.unit_maxes) : state[d] - corner[d] \in {0, t.unit_maxes[d]}

(* C11: for global simplex ids g in [0, nsimplex), simplices(g) is
   unit_simplices[g mod nsimplex_per_cell] with
   rectangle_corner_index(g div nsimplex_per_cell) added to each entry, and
   that row is the reference simplex translated to the cell: its ndim+1
   entries are distinct vertex indices in [0, nindex), each a corner of the
   rectangle, with index_to_state of entry j equal to index_to_state of the
   reference entry j plus rectangle_to_state(rectangle) - offset. *)
C11_SimplicesTranslate ==
    (Done("simplices") /\ \A i \in Idx(points) : points[i] \in 0..(self.nsimplex - 1)) =>
        /\ ~result.raised
        /\ \A i \in Idx(points) :
              LET per_cell == self.triangulation.nsimplex
                  r == points[i] \div per_cell
                  unit == self.unit_simplices[points[i] % per_cell]
                  corner_index == rectangle_corner_index(self, [z \in 0..0 |-> r])[0]
                  shift == rectangle_to_state(self, [z \in 0..0 |-> r])[0]
                  row == result.ret[i]
              IN  /\ DOMAIN row = 0..self.ndim
                  /\ \A j \in 0..self.ndim : row[j] = unit[j] + corner_index
                  /\ Cardinality({row[j] : j \in 0..self.ndim}) = self.ndim + 1
                  /\ \A j \in 0..self.ndim :
                        /\ row[j] >= 0 /\ row[j] < self.nindex
                        /\ IsCornerOf(self, r, index_to_state(self, [z \in 0..0 |-> row[j]])[0])
                        /\ \A d \in Idx(self.offset) :
                              index_to_state(self, [z \in 0..0 |-> row[j]])[0][d]
                                = index_to_state(self, [z \in 0..0 |-> unit[j]])[0][d]
                                    + shift[d] - self.offset[d]

(* C11 witness: simplices has returned the second simplex of a rectangle
   other than the first, shifted away from the reference row. *)
C11_Witness ==
    /\ Done("simplices") /\ ~result.raised
    /\ \E i \in Idx(points) :
          /\ points[i] \in 0..(self.nsimplex - 1)
          /\ points[i] \div self.triangulation.nsimplex >= 1
          /\ points[i] % self.triangulation.nsimplex = 1
          /\ result.ret[i][0] # self.unit_simplices[1][0]

(* C12: for rectangle indices r in [0, nrectangles),
   rectangle_corner_index(r) is a vertex index in [0, nindex) and
   index_to_state of it equals rectangle_to_state(r), the bottom-left corner
   of the cell. *)
C12_CornerIndexIsCorner ==
    (Done("rectangle_corner_index")
        /\ \A i \in Idx(points) : points[i] \in 0..(self.nrectangles - 1)) =>
        /\ ~result.raised
        /\ \A i \in Idx(points) : result.ret[i] >= 0 /\ result.ret[i] < self.nindex
        /\ index_to_state(self, result.ret) = rectangle_to_state(self, points)

(* C12 witness: rectangle_corner_index has returned for a rectangle whose
   vertex index differs from its rectangle index (a cell past the first row
   of the grid). *)
C12_Witness ==
    /\ Done("rectangle_corner_index") /\ ~result.raised
    /\ \E i \in Idx(points) :
          /\ points[i] \in 1..(self.nrectangles - 1)
          /\ result.ret[i] # points[i]
          /\ index_to_state(self, result.ret)[i] = rectangle_to_state(self, points)[i]

====
